---- MODULE Spec2Model ----
(***************************************************************************)
(* A model of Smoke/fluids.c: the FFT-based "stable fluids" solver         *)
(* (init_simulation, set_forces, solve, diffuse_matter), the step          *)
(* orchestrator do_one_simulation_step and the GLUT input handlers         *)
(* keyboard and drag.                                                      *)
(*                                                                         *)
(* Numbers.  fftw_real is a binary floating-point type: double in a        *)
(* default FFTW 2 build, float in a build configured for single precision. *)
(* The header that decides is not part of the repository, so the precision *)
(* P (24 or 53 significand bits) is a choice the model leaves open.  Every *)
(* float, double and fftw_real value is an exact dyadic rational           *)
(* (-1)^s * m * 2^e, m an odd natural number held as a sequence of limbs   *)
(* of 15 bits (TLC's integers are 32 bits wide), and every C operation     *)
(* rounds its exact result to nearest, ties to even, in the type C         *)
(* computes it in, with gradual underflow.  Overflow to infinity and the   *)
(* sign of zero are not modelled; the inputs of the model stay far from    *)
(* overflow.  An operator that needs a value more than once takes it as a  *)
(* parameter, so that it is computed once.                                 *)
(***************************************************************************)
EXTENDS Integers, Sequences, FiniteSets, TLC

\* e, once the operands x it is computed from have their values: C evaluates the
\* operands of an operation, and the statements before a statement, first
Then(x, e) == IF x = x THEN e ELSE e

Max(a, b) == IF a > b THEN a ELSE b
Min(a, b) == IF a < b THEN a ELSE b

(***************************************************************************)
(* Natural numbers of any size: little-endian sequences of limbs, without  *)
(* leading zero limbs.  Carries are found by looking back, not limb after  *)
(* limb, which keeps the evaluation shallow.                               *)
(***************************************************************************)
LimbBase == 2^15

\* limb i (from 1) of a, 0 outside a
BLimb(a, i) == IF 1 <= i /\ i <= Len(a) THEN a[i] ELSE 0

\* the index of the top nonzero limb of a, 0 when there is none
BTop(a) ==
  IF \A i \in 1..Len(a) : a[i] = 0 THEN 0
  ELSE CHOOSE i \in 1..Len(a) : a[i] # 0 /\ \A j \in (i + 1)..Len(a) : a[j] = 0

\* a without its leading zero limbs
BNorm(a) == Then(a, SubSeq(a, 1, BTop(a)))

\* 0 <= k < 2^31
BFromInt(k) == BNorm(<<k % LimbBase, (k \div LimbBase) % LimbBase, k \div (LimbBase * LimbBase)>>)
BToInt(a)   == BLimb(a, 1) + LimbBase * BLimb(a, 2) + LimbBase * LimbBase * BLimb(a, 3)

\* the carry into limb i of a + b
BCarry(a, b, i) ==
  IF \E j \in 1..(i - 1) :
       /\ BLimb(a, j) + BLimb(b, j) >= LimbBase
       /\ \A k \in (j + 1)..(i - 1) : BLimb(a, k) + BLimb(b, k) = LimbBase - 1
  THEN 1 ELSE 0

BAdd(a, b) ==
  BNorm([i \in 1..(Max(Len(a), Len(b)) + 1) |->
           (BLimb(a, i) + BLimb(b, i) + BCarry(a, b, i)) % LimbBase])

\* the borrow from limb i of a - b
BBorrow(a, b, i) ==
  IF \E j \in 1..(i - 1) :
       /\ BLimb(a, j) < BLimb(b, j)
       /\ \A k \in (j + 1)..(i - 1) : BLimb(a, k) = BLimb(b, k)
  THEN 1 ELSE 0

\* a - b for a >= b
BSub(a, b) ==
  BNorm([i \in 1..Len(a) |->
           (LimbBase + BLimb(a, i) - BLimb(b, i) - BBorrow(a, b, i)) % LimbBase])

\* -1, 0, 1 as a < b, a = b, a > b
BTopDiff(a, b) ==
  CHOOSE i \in 1..Len(a) : a[i] # b[i] /\ \A j \in (i + 1)..Len(a) : a[j] = b[j]
BCmp(a, b) ==
  IF Len(a) < Len(b) THEN -1
  ELSE IF Len(a) > Len(b) THEN 1
  ELSE IF \A i \in 1..Len(a) : a[i] = b[i] THEN 0
  ELSE IF a[BTopDiff(a, b)] < b[BTopDiff(a, b)] THEN -1 ELSE 1

\* a * k for 0 <= k < LimbBase: the low parts of the products of the limbs, and the
\* high parts one limb up
BMulSmall(a, k) ==
  BAdd([i \in 1..Len(a) |-> (a[i] * k) % LimbBase],
       [i \in 1..(Len(a) + 1) |-> (BLimb(a, i - 1) * k) \div LimbBase])

\* a * LimbBase
BUp(a) == IF a = <<>> THEN a ELSE <<0>> \o a

\* a * b, from the top limb of b down: acc is the product with the limbs above limb i
RECURSIVE BMulAcc(_, _, _, _)
BMulAcc(a, b, i, acc) ==
  IF i = 0 THEN acc
  ELSE Then(acc, BMulAcc(a, b, i - 1, BAdd(BMulSmall(a, b[i]), BUp(acc))))

BMul(a, b) == BMulAcc(a, b, Len(b), <<>>)

\* floor(a / d) for 0 < d < LimbBase, from the top limb down; r is the running remainder
RECURSIVE BDivSmallR(_, _, _, _)
BDivSmallR(a, d, i, r) ==
  IF i = 0 \/ r < 0 THEN <<>>
  ELSE BDivSmallR(a, d, i - 1, (r * LimbBase + a[i]) % d) \o <<(r * LimbBase + a[i]) \div d>>

BDivSmall(a, d) == BNorm(BDivSmallR(a, d, Len(a), 0))

\* a * 2^k
BShl(a, k) ==
  BNorm([i \in 1..(Len(a) + (k \div 15) + 1) |->
           ((BLimb(a, i - (k \div 15)) * 2^(k % 15)) % LimbBase)
             + (BLimb(a, i - (k \div 15) - 1) \div 2^(15 - (k % 15)))])

\* floor(a / 2^k)
BShr(a, k) ==
  BNorm([i \in 1..Max(Len(a) - (k \div 15), 0) |->
           (BLimb(a, i + (k \div 15)) \div 2^(k % 15))
             + (BLimb(a, i + (k \div 15) + 1) % 2^(k % 15)) * 2^(15 - (k % 15))])

\* the number of bits of a limb k, and of a
IntBitLen(k) == Cardinality({i \in 0..14 : 2^i <= k})
BBitLen(a) ==
  IF a = <<>> THEN 0 ELSE 15 * (Len(a) - 1) + IntBitLen(a[Len(a)])

\* bit i (from 0) of a
BBit(a, i) == (BLimb(a, (i \div 15) + 1) \div 2^(i % 15)) % 2

\* a mod 2^k = 0
BLowZero(a, k) ==
  /\ \A i \in 1..Min(k \div 15, Len(a)) : a[i] = 0
  /\ BLimb(a, (k \div 15) + 1) % 2^(k % 15) = 0

\* the number of trailing zero bits of a limb k > 0, and of a > 0
IntTrailingZeros(k) == Cardinality({z \in 1..14 : k % 2^z = 0})
BLowLimbs(a) == Cardinality({i \in 1..Len(a) : \A j \in 1..i : a[j] = 0})
BTrailingZeros(a) == 15 * BLowLimbs(a) + IntTrailingZeros(a[BLowLimbs(a) + 1])

\* the largest d < LimbBase with b * d <= r, for r < b * LimbBase and the top limb of b
\* at least LimbBase / 2: the estimate q from the top limbs is d, d + 1 or d + 2
BDigitFrom(r, b, q) ==
  IF BCmp(BMulSmall(b, q), r) <= 0 THEN q
  ELSE IF BCmp(BMulSmall(b, q - 1), r) <= 0 THEN q - 1 ELSE q - 2
BDigit(r, b) ==
  BDigitFrom(r, b, Min(LimbBase - 1,
    (BLimb(r, Len(b) + 1) * LimbBase + BLimb(r, Len(b))) \div b[Len(b)]))

\* long division from limb i of a down, q the digits found and r the remainder so far:
\* <<quotient, remainder>>
RECURSIVE BDivModR(_, _, _, _, _)
BDivDigit(a, b, i, q, r, d) ==
  Then(d, BDivModR(a, b, i - 1, <<d>> \o q, BSub(r, BMulSmall(b, d))))
BDivStep(a, b, i, q, r) == Then(r, BDivDigit(a, b, i, q, r, BDigit(r, b)))
BDivModR(a, b, i, q, r) ==
  IF i = 0 THEN <<BNorm(q), r>> ELSE BDivStep(a, b, i, q, BNorm(<<a[i]>> \o r))

\* <<floor(a / b), r>> for b > 0, with r = 0 exactly when b divides a: both numbers
\* are shifted until the top limb of b is at least LimbBase / 2
BDivShift(b) == 15 - IntBitLen(b[Len(b)])
BDivMod(a, b) ==
  BDivModR(BShl(a, BDivShift(b)), BShl(b, BDivShift(b)),
           Len(BShl(a, BDivShift(b))), <<>>, <<>>)

BZeros(n) == IF n = 0 THEN <<>> ELSE [i \in 1..n |-> 0]

\* the largest d < LimbBase with (s + d * LimbBase^k)^2 <= a, found bit by bit from
\* bit i down; d is computed before the next bit is tried
BSquare(a) == BMul(a, a)
RECURSIVE BSqrtDigit(_, _, _, _, _)
BSqrtDigit(a, s, k, d, i) ==
  IF i >= 0 /\ d >= 0
  THEN BSqrtDigit(a, s, k,
         IF BCmp(BSquare(BAdd(s, BZeros(k) \o <<d + 2^i>>)), a) <= 0
         THEN d + 2^i ELSE d, i - 1)
  ELSE d

BWithDigit(s, k, d) == IF d = 0 THEN s ELSE BAdd(s, BZeros(k) \o <<d>>)

\* the limbs of the root from limb k down; s is computed before the next limb is tried
RECURSIVE BSqrtR(_, _, _)
BSqrtR(a, s, k) ==
  IF k >= 0 /\ s = s
  THEN BSqrtR(a, BWithDigit(s, k, BSqrtDigit(a, s, k, 0, 14)), k - 1)
  ELSE s

\* floor(sqrt(a))
BSqrt(a) == BSqrtR(a, <<>>, (Len(a) + 1) \div 2)

(***************************************************************************)
(* Floating-point values and C's arithmetic on them.  A value is the       *)
(* record [s, m, e] standing for (-1)^s * m * 2^e with m odd, or FZero.    *)
(***************************************************************************)
FZero == [s |-> 0, m |-> <<>>, e |-> 0]
FOne  == [s |-> 0, m |-> <<1>>, e |-> 0]
FHalf == [s |-> 0, m |-> <<1>>, e |-> -1]

\* the result of a division by zero, an infinity or a NaN: not a number of the model
NotFinite == [s |-> 2, m |-> <<>>, e |-> 0]

\* the value (-1)^s * m * 2^e, in canonical form
FShift(s, m, e, z) == [s |-> s, m |-> IF z = 0 THEN m ELSE BShr(m, z), e |-> e + z]
FMake(s, m, e) == IF m = <<>> THEN FZero ELSE FShift(s, m, e, BTrailingZeros(m))
FCanon(v) == FMake(v.s, v.m, v.e)

\* an int converted to a floating type (exact for the ints of the model)
FInt(k) == FMake(IF k < 0 THEN 1 ELSE 0, BFromInt(IF k < 0 THEN -k ELSE k), 0)

FNeg(v) == IF v.m = <<>> THEN v ELSE [v EXCEPT !.s = 1 - v.s]
FAbs(v) == IF v.m = <<>> THEN v ELSE [v EXCEPT !.s = 0]

\* the exponent of the smallest subnormal of the format with p significand bits
MinExp(p) == IF p = 24 THEN -149 ELSE -1074

\* v = (-1)^s * m * 2^e, m of any parity, rounded to the format with p significand
\* bits: to nearest, ties to even; k is the number of bits that do not fit
RoundsUp(m, k, q) == BBit(m, k - 1) = 1 /\ (~BLowZero(m, k - 1) \/ BBit(q, 0) = 1)
Rounded(m, k, q)  == IF RoundsUp(m, k, q) THEN BAdd(q, <<1>>) ELSE q
RoundAt(v, k) ==
  FMake(v.s, IF k <= 0 THEN v.m ELSE Rounded(v.m, k, BShr(v.m, k)), v.e + Max(k, 0))
RN(p, v) ==
  IF v = NotFinite THEN v
  ELSE RoundAt(v, Max(BBitLen(v.m) - p, MinExp(p) - v.e))

\* the exact sum, with the significands a and b aligned at the exponent e0
SignedDiff(sv, sw, a, b, e0, c) ==
  IF c >= 0 THEN [s |-> sv, m |-> BSub(a, b), e |-> e0]
  ELSE [s |-> sw, m |-> BSub(b, a), e |-> e0]
AlignedSum(sv, sw, a, b, e0) ==
  IF sv = sw THEN [s |-> sv, m |-> BAdd(a, b), e |-> e0]
  ELSE SignedDiff(sv, sw, a, b, e0, BCmp(a, b))
FSum(v, w) ==
  AlignedSum(v.s, w.s, BShl(v.m, v.e - Min(v.e, w.e)), BShl(w.m, w.e - Min(v.e, w.e)),
             Min(v.e, w.e))

\* the exact product
FProduct(v, w) == [s |-> (v.s + w.s) % 2, m |-> BMul(v.m, w.m), e |-> v.e + w.e]

\* the exact sum and the exact product, in canonical form
FAddX(v, w) == FCanon(FSum(v, w))
FMulX(v, w) == FCanon(FProduct(v, w))

\* -1, 0, 1 as v < w, v = w, v > w
FSign(v) == IF v.m = <<>> THEN 0 ELSE IF v.s = 1 THEN -1 ELSE 1
FCmp(v, w) == FSign(FSum(v, FNeg(w)))

\* C's +, -, * and / in the format with p significand bits; an operation on an
\* infinity or a NaN gives one again
FAdd(p, v, w) ==
  Then(<<v, w>>, IF NotFinite \in {v, w} THEN NotFinite ELSE RN(p, FSum(v, w)))
FSub(p, v, w) == FAdd(p, v, FNeg(w))
FMul(p, v, w) ==
  Then(<<v, w>>, IF NotFinite \in {v, w} THEN NotFinite ELSE RN(p, FProduct(v, w)))

\* the quotient to p+3 bits and more, its last bit set when the division left a remainder
FQuotientOf(p, s, e, qr) ==
  Then(qr, RN(p, [s |-> s, e |-> e,
                  m |-> BAdd(BMulSmall(qr[1], 2), IF qr[2] = <<>> THEN <<>> ELSE <<1>>)]))
FQuotient(p, v, w, sh) ==
  FQuotientOf(p, (v.s + w.s) % 2, v.e - w.e - sh - 1, BDivMod(BShl(v.m, sh), w.m))
FDiv(p, v, w) ==
  Then(<<v, w>>,
    IF NotFinite \in {v, w} \/ w = FZero THEN NotFinite
    ELSE IF v = FZero THEN FZero
    ELSE FQuotient(p, v, w, Max(p + 3 + BBitLen(w.m) - BBitLen(v.m), 0)))

\* C's sqrt (correctly rounded) of v >= 0
FRootOf(p, a, r, e) ==
  Then(r, RN(p, [s |-> 0, e |-> e,
                 m |-> BAdd(BMulSmall(r, 2), IF BSquare(r) = a THEN <<>> ELSE <<1>>)]))
FRootAt(p, v, sh) == FRootOf(p, BShl(v.m, sh), BSqrt(BShl(v.m, sh)), (v.e - sh) \div 2 - 1)
FRootShift(e, s0) == IF (e - s0) % 2 = 0 THEN s0 ELSE s0 + 1
FSqrt(p, v) ==
  IF v.m = <<>> THEN v
  ELSE FRootAt(p, v, FRootShift(v.e, Max(2 * (p + 3) - BBitLen(v.m), 0)))

\* C's conversion to int: truncation toward zero (|v| < 2^31)
FMagnitude(v) ==
  IF v.e >= 0 THEN BToInt(BShl(v.m, v.e)) ELSE BToInt(BShr(v.m, -v.e))
FTrunc(v) == (IF v.s = 1 THEN -1 ELSE 1) * FMagnitude(v)

\* a decimal literal num/den of C source, as a double and as a float
Dbl(num, den) == FDiv(53, FInt(num), FInt(den))
Flt(num, den) == FDiv(24, FInt(num), FInt(den))

\* C's exp: the sum of the series a^k / k! to 40 terms, every term and every partial
\* sum kept to 120 bits, rounded once to double (|a| stays below 1 in the model)
ExpQuotient(v, k) == [s |-> v.s, m |-> BDivSmall(BShl(v.m, 30), k), e |-> v.e - 30]
ExpTerm(a, term, k) == RN(120, ExpQuotient(RN(120, FProduct(term, a)), k))
RECURSIVE ExpSeries(_, _, _, _)
ExpSeries(a, term, sum, k) ==
  IF term.m = <<>> \/ k > 40 \/ term.e + BBitLen(term.m) < -110 \/ sum # sum THEN sum
  ELSE ExpSeries(a, ExpTerm(a, term, k), RN(120, FSum(sum, term)), k + 1)

FExp(a) == RN(53, ExpSeries(a, FOne, FZero, 1))

(***************************************************************************)
(* The simulation grid and the helpers of the solver.                      *)
(***************************************************************************)
\* const int DIM: 50 in the source; the model runs the program on a grid of 2 x 2
\* cells, a size whose transforms the sums of FFT below compute as the library does
DIM == 2

\* the allocation sizes of init_simulation, in elements
PadSize(n)     == n * 2 * (n \div 2 + 1)
CompactSize(n) == n * n

\* C's % on ints: the remainder of the division truncated toward zero
CMod(a, n) == IF a >= 0 THEN a % n ELSE -((-a) % n)

\* int clamp(float x): x>=0.0?((int)(x)):(-((int)(1-(x))))
clamp(x) == IF x.s = 0 THEN FTrunc(x) ELSE -FTrunc(FSub(24, FOne, x))

rotational_increment(x, max) == IF x + 1 >= max THEN 0 ELSE x + 1

\* the cell coordinates taken at the corners of the cells: x starts at 0, not 0.5f/n
RECURSIVE CellCoordCorner(_, _, _)
CellCoordCorner(P, n, i) ==
  IF i = 0 THEN FZero
  ELSE FAdd(P, CellCoordCorner(P, n, i - 1), FDiv(24, FOne, FInt(n)))

\* the loop variable x (or y) when the index is i: x = 0.5f/n; i times x += 1.0f/n
RECURSIVE CellCoord(_, _, _)
CellCoord(P, n, i) ==
  IF i = 0 THEN FDiv(24, FHalf, FInt(n))
  ELSE FAdd(P, CellCoord(P, n, i - 1), FDiv(24, FOne, FInt(n)))

\* x0 = n*(x-dt*v)-0.5f
TracedPos(P, n, c, h, v) ==
  FSub(P, FMul(P, FInt(n), FSub(P, c, FMul(P, h, v))), FHalf)

\* i0 = (n+(i0%n))%n
Wrap(n, b) == CMod(n + CMod(b, n), n)

\* s = x0-i0; i0 = (n+(i0%n))%n; i1 = (i0+1)%n, for i0 = b
DecomposeAt(P, n, p0, b) ==
  [pos |-> p0, base |-> b, frac |-> FSub(P, p0, FInt(b)),
   i0 |-> Wrap(n, b), i1 |-> CMod(Wrap(n, b) + 1, n)]

\* i0 = clamp(x0), the argument converted to float at the call, and the lines after it
Decompose(P, n, p0) == DecomposeAt(P, n, p0, clamp(RN(24, p0)))

\* the backward trace of the cell at (x, y) through its velocity (u, v) over the time h
Backtrace(P, n, x, y, h, u, v) ==
  [x |-> Decompose(P, n, TracedPos(P, n, x, h, u)),
   y |-> Decompose(P, n, TracedPos(P, n, y, h, v))]

\* (1-s)*((1-t)*q00+t*q01)+s*((1-t)*q10+t*q11), s1 and t1 the values of 1-s and 1-t
Bilinear(P, s, t, s1, t1, q00, q01, q10, q11) ==
  FAdd(P, FMul(P, s1, FAdd(P, FMul(P, t1, q00), FMul(P, t, q01))),
          FMul(P, s,  FAdd(P, FMul(P, t1, q10), FMul(P, t, q11))))

\* (1-s)*((1-t)*q[i0+n*j0]+t*q[i0+n*j1])+s*((1-t)*q[i1+n*j0]+t*q[i1+n*j1])
Interpolate(P, n, bt, q) ==
  Bilinear(P, bt.x.frac, bt.y.frac, FSub(P, FOne, bt.x.frac), FSub(P, FOne, bt.y.frac),
           q[bt.x.i0 + n * bt.y.i0], q[bt.x.i0 + n * bt.y.i1],
           q[bt.x.i1 + n * bt.y.i0], q[bt.x.i1 + n * bt.y.i1])

(***************************************************************************)
(* FFT: the in-place real <-> complex transforms of FFTW 2 (rfftwnd) on an *)
(* n x n array in the padded layout, row stride n+2: element (i, j) of the *)
(* real data is at i+(n+2)*j, the complex coefficient (k, j), k <= n/2, at *)
(* 2k+(n+2)*j (real part) and 2k+1+(n+2)*j (imaginary part).  The library  *)
(* transforms the rows, then the columns; neither transform is normalised. *)
(* The twiddle factors of a grid size dividing 4 are 1, -i, -1, i, so the  *)
(* sums below are exact up to the rounding of each addition.               *)
(***************************************************************************)
\* memory no write has reached yet
Indeterminate == "indeterminate"

CZero == <<FZero, FZero>>
CAdd(P, z, w) == <<FAdd(P, z[1], w[1]), FAdd(P, z[2], w[2])>>

\* z * (-i)^q
CTurn(z, q) ==
  CASE q % 4 = 0 -> z
    [] q % 4 = 1 -> <<z[2], FNeg(z[1])>>
    [] q % 4 = 2 -> <<FNeg(z[1]), FNeg(z[2])>>
    [] q % 4 = 3 -> <<FNeg(z[2]), z[1]>>

\* sum over m = 0..n-1 of z[m] * e^(-+2 pi i m k / n); sign is 1 forward, -1 backward
RECURSIVE DFTSum(_, _, _, _, _, _)
DFTSum(P, n, z, k, sign, m) ==
  IF m = 0 THEN CTurn(z[0], 0)
  ELSE CAdd(P, DFTSum(P, n, z, k, sign, m - 1), CTurn(z[m], sign * (4 \div n) * m * k))

\* the array in the padded layout that holds the coefficients col[j][k]
Interleave(n, col) ==
  Then(col, [c \in 0..(PadSize(n) - 1) |->
               col[c \div (n + 2)][(c % (n + 2)) \div 2][(c % 2) + 1]])

\* the transforms of the columns of the transformed rows
Columns(P, n, row) ==
  Then(row, Interleave(n, [j \in 0..(n - 1) |-> [k \in 0..(n \div 2) |->
               DFTSum(P, n, [m \in 0..(n - 1) |-> row[m][k]], j, 1, n - 1)]]))

\* rfftwnd_one_real_to_complex(plan_rc, a, a)
FFTForward(P, n, a) ==
  Columns(P, n, [j \in 0..(n - 1) |-> [k \in 0..(n \div 2) |->
               DFTSum(P, n, [i \in 0..(n - 1) |-> <<a[i + (n + 2) * j], FZero>>],
                      k, 1, n - 1)]])

\* the real sample i of the row whose half spectrum is z
RealTerm(P, n, k, w) == IF k = n \div 2 THEN w ELSE FMul(P, FInt(2), w)
RECURSIVE HalfToReal(_, _, _, _, _)
HalfToReal(P, n, z, i, k) ==
  IF k = 0 THEN z[0][1]
  ELSE FAdd(P, HalfToReal(P, n, z, i, k - 1),
               RealTerm(P, n, k, CTurn(z[k], -((4 \div n) * i * k))[1]))

\* the rows back to real data; the padding is left unspecified
RowsBack(P, n, col) ==
  Then(col, [c \in 0..(PadSize(n) - 1) |->
               IF c % (n + 2) < n
               THEN HalfToReal(P, n, col[c \div (n + 2)], c % (n + 2), n \div 2)
               ELSE Indeterminate])

\* rfftwnd_one_complex_to_real(plan_cr, a, a)
FFTBackward(P, n, a) ==
  RowsBack(P, n, [j \in 0..(n - 1) |-> [k \in 0..(n \div 2) |->
               DFTSum(P, n, [m \in 0..(n - 1) |-> <<a[2 * k + (n + 2) * m],
                                                    a[2 * k + 1 + (n + 2) * m]>>],
                      j, -1, n - 1)]])

\* void FFT(int direction, void* vx)
FFT(P, n, direction, a) ==
  IF direction = 1 THEN FFTForward(P, n, a) ELSE FFTBackward(P, n, a)

(***************************************************************************)
(* The solver.                                                             *)
(***************************************************************************)
\* the projection with the sign of the first term of the second component lost:
\*   f*(y*x/r*U + (1-y*y/r)*V)
ProjectPairSign(P, x, y, r, f, U, V) ==
  [u |-> FMul(P, f, FSub(P, FMul(P, FSub(P, FOne, FDiv(P, FMul(P, x, x), r)), U),
                            FMul(P, FDiv(P, FMul(P, x, y), r), V))),
   v |-> FMul(P, f, FAdd(P, FMul(P, FDiv(P, FMul(P, y, x), r), U),
                            FMul(P, FSub(P, FOne, FDiv(P, FMul(P, y, y), r)), V)))]

\* one pair (U, V) of a frequency bin, lines 168-174:
\*   f*((1-x*x/r)*U - x*y/r*V)  and  f*(-y*x/r*U + (1-y*y/r)*V)
ProjectPair(P, x, y, r, f, U, V) ==
  [u |-> FMul(P, f, FSub(P, FMul(P, FSub(P, FOne, FDiv(P, FMul(P, x, x), r)), U),
                            FMul(P, FDiv(P, FMul(P, x, y), r), V))),
   v |-> FMul(P, f, FAdd(P, FMul(P, FDiv(P, FMul(P, FNeg(y), x), r), U),
                            FMul(P, FSub(P, FOne, FDiv(P, FMul(P, y, y), r)), V)))]

\* x = 0.5f*i and y = j<=n/2 ? j : j-n, the wave numbers of the bin at padded (i, j)
WaveX(P, i)    == FMul(P, FHalf, FInt(i))
WaveY(n, j)    == FInt(IF j <= n \div 2 THEN j ELSE j - n)
WaveR(P, n, i, j) ==
  FAdd(P, FMul(P, WaveX(P, i), WaveX(P, i)), FMul(P, WaveY(n, j), WaveY(n, j)))

\* f = (fftw_real)exp(-r*dt*visc)
Damping(P, r, h, nu) == RN(P, FExp(FMul(P, FMul(P, FNeg(r), h), nu)))

\* the body of the loop of lines 159-176 without the test of r: the bin with r = 0 is
\* updated too
ProjectBinNoSkip(P, n, b, r, nu, h, U, V) ==
  ProjectPair(P, WaveX(P, b % (n + 2)), WaveY(n, b \div (n + 2)), r,
              Damping(P, r, h, nu), U, V)

\* the body of the loop of lines 159-176 for the bin at b, whose r = x*x+y*y is given:
\* the new (U, V) of one of its two pairs; a bin with r = 0 is skipped
ProjectBin(P, n, b, r, nu, h, U, V) ==
  IF r = FZero THEN [u |-> U, v |-> V]
  ELSE ProjectPair(P, WaveX(P, b % (n + 2)), WaveY(n, b \div (n + 2)), r,
                   Damping(P, r, h, nu), U, V)

\* the two arrays of the pairs out[c]
ProjectSplit(n, out) ==
  Then(out, [vx0 |-> [c \in 0..(PadSize(n) - 1) |-> out[c].u],
             vy0 |-> [c \in 0..(PadSize(n) - 1) |-> out[c].v]])

\* the loop of lines 159-176 over the transformed (vx0, vy0)
Project(P, n, u0, v0, nu, h) ==
  ProjectSplit(n, [c \in 0..(PadSize(n) - 1) |->
    ProjectBin(P, n, c - (c % 2),
               WaveR(P, n, (c - (c % 2)) % (n + 2), c \div (n + 2)),
               nu, h, u0[c], v0[c])])

\* line 134: vx[i] += dt*vx0[i]
AddForce(P, n, q, q0, h) ==
  [c \in 0..(PadSize(n) - 1) |->
     IF c < n * n THEN FAdd(P, q[c], FMul(P, h, q0[c])) ELSE q[c]]

\* line 134: vx0[i] = vx[i]
Overlay(n, q, q0) == [c \in DOMAIN q0 |-> IF c < n * n THEN q[c] ELSE q0[c]]

\* lines 140-147 and 198-207: the traced position of every cell, decomposed
BacktracesFrom(P, n, coord, u, v, h) ==
  Then(coord, [c \in 0..(n * n - 1) |->
                 Backtrace(P, n, coord[c % n], coord[c \div n], h, u[c], v[c])])
Backtraces(P, n, u, v, h) ==
  BacktracesFrom(P, n, [i \in 0..(n - 1) |-> CellCoord(P, n, i)], u, v, h)

\* lines 148-149 and 208: q[i+n*j] is interpolated from q0 at the traced position
Resample(P, n, q, q0, bt) ==
  [c \in DOMAIN q |-> IF c < n * n THEN Interpolate(P, n, bt[c], q0) ELSE q[c]]

\* lines 152-154: vx0[i+(n+2)*j] = vx[i+n*j]
Pad(n, q0, q) ==
  [c \in 0..(PadSize(n) - 1) |->
     IF c % (n + 2) < n THEN q[(c % (n + 2)) + n * (c \div (n + 2))] ELSE q0[c]]

\* lines 181-184: vx[i+n*j] = f*vx0[i+(n+2)*j] with f = 1.0/(n*n)
Unpad(P, n, q, q0) ==
  [c \in 0..(PadSize(n) - 1) |->
     IF c < n * n
     THEN FMul(P, RN(P, Dbl(1, n * n)), q0[(c % n) + (n + 2) * (c \div n)])
     ELSE q[c]]

\* lines 181-184 of solve: the four buffers after the call, and the traced positions
\* bt of its advection loop
solve_normalise(P, n, u2, v2, u03, v03, bt) ==
  Then(<<u03, v03>>, [vx |-> Unpad(P, n, u2, u03), vy |-> Unpad(P, n, v2, v03),
                      vx0 |-> u03, vy0 |-> v03, bt |-> bt])

\* lines 178-179 and the rest of solve
solve_inverse(P, n, u2, v2, pj, bt) ==
  Then(pj, solve_normalise(P, n, u2, v2, FFT(P, n, -1, pj.vx0), FFT(P, n, -1, pj.vy0), bt))

\* lines 159-176 and the rest of solve
solve_project(P, n, u2, v2, u02, v02, bt, nu, h) ==
  Then(<<u02, v02>>, solve_inverse(P, n, u2, v2, Project(P, n, u02, v02, nu, h), bt))

\* lines 152-157 and the rest of solve
solve_transform(P, n, u2, v2, u01, v01, bt, nu, h) ==
  Then(<<u2, v2>>,
    solve_project(P, n, u2, v2, FFT(P, n, 1, Pad(n, u01, u2)),
                  FFT(P, n, 1, Pad(n, v01, v2)), bt, nu, h))

\* lines 148-149 and the rest of solve
solve_resample(P, n, u1, v1, u01, v01, bt, nu, h) ==
  Then(bt, solve_transform(P, n, Resample(P, n, u1, u01, bt), Resample(P, n, v1, v01, bt),
                           u01, v01, bt, nu, h))

\* lines 137-147 and the rest of solve
solve_advect(P, n, u1, v1, u01, v01, nu, h) ==
  Then(<<u01, v01>>,
    solve_resample(P, n, u1, v1, u01, v01, Backtraces(P, n, u01, v01, h), nu, h))

\* line 134, vx0[i] = vx[i], and the rest of solve
solve_copy(P, n, u1, v1, a0, b0, nu, h) ==
  Then(<<u1, v1>>,
    solve_advect(P, n, u1, v1, Overlay(n, u1, a0), Overlay(n, v1, b0), nu, h))

\* void solve(n, vx, vy, vx0, vy0, visc, dt)
solve(P, n, a, b, a0, b0, nu, h) ==
  solve_copy(P, n, AddForce(P, n, a, a0, h), AddForce(P, n, b, b0, h), a0, b0, nu, h)

\* line 208: rho after the call, and the traced positions bt of the loop
diffuse_matter_resample(P, n, d, d0, bt) ==
  Then(bt, [rho |-> Resample(P, n, d, d0, bt), bt |-> bt])

\* void diffuse_matter(n, vx, vy, rho, rho0, dt)
diffuse_matter(P, n, a, b, d, d0, h) ==
  diffuse_matter_resample(P, n, d, d0, Backtraces(P, n, a, b, h))

\* q[i] * k, the product a double: lines 219-221
Scaled(P, k, q) == [c \in DOMAIN q |-> RN(P, FMul(53, q[c], k))]

\* lines 222-223: vx0[i] = fx[i]; vy0[i] = fy[i]
set_forces_copy(d0, nf, ng, a0, b0) ==
  Then(<<d0, nf, ng>>,
    [rho0 |-> d0, fx |-> nf, fy |-> ng,
     vx0 |-> Overlay(DIM, nf, a0), vy0 |-> Overlay(DIM, ng, b0)])

\* set_forces with the forces scaled by 0.8, not by 0.85
set_forces_scaled(P, d, f, g, a0, b0) ==
  set_forces_copy(Scaled(P, Dbl(995, 1000), d), Scaled(P, Dbl(8, 10), f),
                  Scaled(P, Dbl(8, 10), g), a0, b0)

\* void set_forces(void): the five buffers it writes
set_forces(P, d, f, g, a0, b0) ==
  set_forces_copy(Scaled(P, Dbl(995, 1000), d), Scaled(P, Dbl(85, 100), f),
                  Scaled(P, Dbl(85, 100), g), a0, b0)

\* lines 507-508 of drag: xi = (int)clamp((double)(DIM + 1) * ((double)mx / (double)winWidth))
CellFloor(pos, size) ==
  clamp(RN(24, FMul(53, FInt(DIM + 1), FDiv(53, FInt(pos), FInt(size)))))

\* lines 510-512 of drag without line 513: X stays below 0 when xi is
CellClipHigh(xi) == IF xi > DIM - 1 THEN DIM - 1 ELSE xi

\* lines 510-513 of drag: X = xi; if (X > (DIM - 1)) X = DIM - 1; if (X < 0) X = 0
CellClip(xi) == IF xi > DIM - 1 THEN DIM - 1 ELSE IF xi < 0 THEN 0 ELSE xi

\* lines 507-513 of drag: the grid index of a window coordinate pos in 0..size
CellIndex(pos, size) == CellClip(CellFloor(pos, size))

\* lines 517-519 of drag: the force added for the pointer movement (dx, dy)
ImpulseBy(a, b, k) == <<FMul(53, a, k), FMul(53, b, k)>>
ImpulseOf(a, b, len) ==
  IF len = FZero THEN <<a, b>> ELSE ImpulseBy(a, b, FDiv(53, Dbl(1, 10), len))
Impulse(dx, dy) ==
  ImpulseOf(FInt(dx), FInt(dy),
            FSqrt(53, FAdd(53, FMul(53, FInt(dx), FInt(dx)), FMul(53, FInt(dy), FInt(dy)))))

(***************************************************************************)
(* The indices each loop applies to the buffers it addresses.              *)
(***************************************************************************)
\* for (i = 0; i < n * n; i++): lines 68, 134, 217
CompactIdx(n) == 0..(n * n - 1)

\* vx0[i+(n+2)*j] for i < n, j < n: lines 152-154 and 182-184
PaddedIdx(n) == {i + (n + 2) * j : i \in 0..(n - 1), j \in 0..(n - 1)}

\* the bins of a loop that runs to j <= n: one row of bins past the last
BinIdxWide(n) ==
  UNION {{i + (n + 2) * j, i + 1 + (n + 2) * j} :
           i \in {k \in 0..n : k % 2 = 0}, j \in 0..n}

\* vx0[i+(n+2)*j] and vx0[i+1+(n+2)*j] for (i=0;i<=n;i+=2), j < n: lines 159-175
BinIdx(n) ==
  UNION {{i + (n + 2) * j, i + 1 + (n + 2) * j} :
           i \in {k \in 0..n : k % 2 = 0}, j \in 0..(n - 1)}

\* q0[i0+n*j0], q0[i0+n*j1], q0[i1+n*j0], q0[i1+n*j1]: lines 148-149 and 208
LookupIdx(n, bt) ==
  UNION {{bt[c].x.i0 + n * bt[c].y.i0, bt[c].x.i0 + n * bt[c].y.i1,
          bt[c].x.i1 + n * bt[c].y.i0, bt[c].x.i1 + n * bt[c].y.i1} : c \in DOMAIN bt}

(***************************************************************************)
(* The state of the program.                                               *)
(***************************************************************************)
VARIABLES
  n,          \* the grid size passed to init_simulation, solve and diffuse_matter
  prec,       \* the significand bits of fftw_real: 24 (float) or 53 (double)
  pc,         \* "start", "running", "exited" (key q) or "crashed"
  vx, vy,     \* the velocity at the current moment
  vx0, vy0,   \* the velocity at the previous moment; the padded scratch of the FFT
  fx, fy,     \* the user-controlled forces
  rho, rho0,  \* the smoke density at the current and at the previous moment
  dt,         \* double dt: the simulation time step
  visc,       \* float visc: the fluid viscosity
  frozen,     \* toggles the animation
  winWidth, winHeight,
  lmx, lmy,   \* the static locals of drag: the last mouse location
  redisplays, \* the calls of glutPostRedisplay so far
  event,      \* the last callback or function run, with its arguments
  calls,      \* the calls the last callback made, in order
  target,     \* the cell <<X, Y>> the last drag addressed
  traced,     \* the traced positions of the last density advection, per cell
  touched,    \* the indices the last callback applied to each group of buffers
  failed,     \* the buffers whose malloc returned NULL
  before,     \* the buffers and globals as the last callback found them
  nticks, ninputs

vars == <<n, prec, pc, vx, vy, vx0, vy0, fx, fy, rho, rho0, dt, visc, frozen,
          winWidth, winHeight, lmx, lmy, redisplays, event, calls, target, traced,
          touched, failed, before, nticks, ninputs>>

buffers == <<vx, vy, vx0, vy0, fx, fy, rho, rho0>>
params  == <<dt, visc, frozen, winWidth, winHeight, lmx, lmy>>
build   == <<n, prec, failed>>

\* the bounds of the model
MaxTicks  == 1
MaxInputs == 2

Precisions == {24, 53}
NoTouch    == [vel |-> {}, scratch |-> {}, cell |-> {}]

\* the buffers and the globals a callback finds
Found ==
  [vx |-> vx, vy |-> vy, vx0 |-> vx0, vy0 |-> vy0, fx |-> fx, fy |-> fy,
   rho |-> rho, rho0 |-> rho0, dt |-> dt, visc |-> visc, frozen |-> frozen,
   lmx |-> lmx, lmy |-> lmy, redisplays |-> redisplays]

\* lines 55-69 of init_simulation with every malloc successful: the first n*n
\* elements of every buffer are 0, the rest of the padded buffers is not written
ZeroPadded(m)  == [c \in 0..(PadSize(m) - 1) |-> IF c < m * m THEN FZero ELSE Indeterminate]
ZeroCompact(m) == [c \in 0..(CompactSize(m) - 1) |-> FZero]

\* the values of the globals at their definitions: lines 19, 20, 42, and the window
\* of glutInitWindowSize as the reshape callback reports it before the first input
InitParams ==
  /\ dt = Dbl(4, 100)
  /\ visc = RN(24, Dbl(1, 1000))
  /\ frozen = 0
  /\ winWidth = 900 /\ winHeight = 900
  /\ lmx = 0 /\ lmy = 0

InitGhost ==
  /\ redisplays = 0
  /\ event = <<>>
  /\ calls = <<>>
  /\ target = <<0, 0>>
  /\ traced = <<>>
  /\ touched = NoTouch
  /\ before = <<>>
  /\ nticks = 0 /\ ninputs = 0

\* the state main reaches before glutMainLoop: init_simulation(DIM) has run
Init ==
  /\ n = DIM
  /\ prec \in Precisions
  /\ pc = "running"
  /\ failed = {}
  /\ vx = ZeroPadded(DIM) /\ vy = ZeroPadded(DIM)
  /\ vx0 = ZeroPadded(DIM) /\ vy0 = ZeroPadded(DIM)
  /\ fx = ZeroCompact(DIM) /\ fy = ZeroCompact(DIM)
  /\ rho = ZeroCompact(DIM) /\ rho0 = ZeroCompact(DIM)
  /\ InitParams
  /\ InitGhost

\* the state a tick leaves when set_forces, solve and diffuse_matter returned sf, sv
\* and dm: lines 237-240
StepDone(sf, sv, dm) ==
  /\ fx' = sf.fx /\ fy' = sf.fy /\ rho0' = sf.rho0
  /\ vx' = sv.vx /\ vy' = sv.vy /\ vx0' = sv.vx0 /\ vy0' = sv.vy0
  /\ rho' = dm.rho
  /\ redisplays' = redisplays + 1
  /\ calls' = <<"set_forces", "solve", "diffuse_matter", "glutPostRedisplay">>
  /\ traced' = dm.bt
  /\ touched' =
       [vel     |-> CompactIdx(DIM),
        scratch |-> CompactIdx(DIM) \cup LookupIdx(DIM, sv.bt)
                      \cup PaddedIdx(DIM) \cup BinIdx(DIM),
        cell    |-> CompactIdx(DIM) \cup LookupIdx(DIM, dm.bt)]

\* a tick that is idle when frozen: lines 235 and 241
StepSkipped ==
  /\ UNCHANGED <<buffers, redisplays, traced>>
  /\ calls' = <<>>
  /\ touched' = NoTouch

\* do_one_simulation_step with the density advected through the velocity the tick
\* found, not through the one solve leaves
do_one_simulation_step_stale ==
  /\ pc = "running"
  /\ nticks < MaxTicks
  /\ nticks' = nticks + 1
  /\ event' = <<"do_one_simulation_step">>
  /\ before' = Found
  /\ IF frozen = 0
     THEN \E h \in {RN(prec, dt)} :
          \E sf \in {set_forces(prec, rho, fx, fy, vx0, vy0)} :
          \E sv \in {solve(prec, DIM, vx, vy, sf.vx0, sf.vy0, visc, h)} :
          \E dm \in {diffuse_matter(prec, DIM, vx, vy, rho, sf.rho0, h)} :
              StepDone(sf, sv, dm)
     ELSE StepSkipped
  /\ UNCHANGED <<params, build, pc, target, ninputs>>

\* void do_one_simulation_step(void), the idle callback
do_one_simulation_step ==
  /\ pc = "running"
  /\ nticks < MaxTicks
  /\ nticks' = nticks + 1
  /\ event' = <<"do_one_simulation_step">>
  /\ before' = Found
  /\ IF frozen = 0
     THEN \E h \in {RN(prec, dt)} :
          \E sf \in {set_forces(prec, rho, fx, fy, vx0, vy0)} :
          \E sv \in {solve(prec, DIM, vx, vy, sf.vx0, sf.vy0, visc, h)} :
          \E dm \in {diffuse_matter(prec, DIM, sv.vx, sv.vy, rho, sf.rho0, h)} :
              StepDone(sf, sv, dm)
     ELSE StepSkipped
  /\ UNCHANGED <<params, build, pc, target, ninputs>>

\* the keys of keyboard that change the simulation; "c" stands for the keys that
\* change only parameters of the visualization, which the model does not hold
Keys == {"t", "T", "V", "v", "a", "q", "c"}

\* void keyboard(unsigned char key, int x, int y)
keyboard(key) ==
  /\ pc = "running"
  /\ ninputs < MaxInputs
  /\ ninputs' = ninputs + 1
  /\ event' = <<"keyboard", key>>
  /\ before' = Found
  /\ dt' = CASE key = "t" -> FSub(53, dt, Dbl(1, 1000))
             [] key = "T" -> FAdd(53, dt, Dbl(1, 1000))
             [] OTHER -> dt
  /\ visc' = CASE key = "V" -> FMul(24, visc, FInt(5))
               [] key = "v" -> RN(24, FMul(53, visc, Dbl(2, 10)))
               [] OTHER -> visc
  /\ frozen' = IF key = "a" THEN 1 - frozen ELSE frozen
  /\ pc' = IF key = "q" THEN "exited" ELSE pc
  /\ calls' = IF key = "q" THEN <<"exit">> ELSE <<>>
  /\ touched' = NoTouch
  /\ UNCHANGED <<buffers, winWidth, winHeight, lmx, lmy, build, redisplays, target,
                 traced, nticks>>

\* the pointer positions <<mx, my>> of the model: left of and above the window,
\* inside it (twice in one cell), right of and below it
Pointers == {<<-300, -100>>, <<450, 300>>, <<700, 200>>, <<1200, 1000>>}

\* void drag(int mx, int my), the motion callback
drag(mx, my) ==
  /\ pc = "running"
  /\ ninputs < MaxInputs
  /\ \E X \in {CellIndex(mx, winWidth)} :
     \E Y \in {CellIndex(winHeight - my, winHeight)} :
     \E f \in {Impulse(mx - lmx, (winHeight - my) - lmy)} :
     \E c \in {Y * DIM + X} :
      /\ ninputs' = ninputs + 1
      /\ event' = <<"drag", mx, my>>
      /\ before' = Found
      /\ fx' = [fx EXCEPT ![c] = RN(prec, FAdd(53, fx[c], f[1]))]
      /\ fy' = [fy EXCEPT ![c] = RN(prec, FAdd(53, fy[c], f[2]))]
      /\ rho' = [rho EXCEPT ![c] = FInt(10)]
      /\ lmx' = mx /\ lmy' = winHeight - my
      /\ target' = <<X, Y>>
      /\ calls' = <<>>
      /\ touched' = [NoTouch EXCEPT !.cell = {c}]
      /\ UNCHANGED <<vx, vy, vx0, vy0, rho0, dt, visc, frozen, winWidth, winHeight,
                     build, pc, redisplays, traced, nticks>>

Next ==
  \/ do_one_simulation_step
  \/ \E key \in Keys : keyboard(key)
  \/ \E m \in Pointers : drag(m[1], m[2])

Spec == Init /\ [][Next]_vars

(***************************************************************************)
(* Start-up with malloc free to fail.  init_simulation tests no pointer    *)
(* malloc returns: its zero-filling loop writes through a NULL pointer,    *)
(* which C leaves undefined; the process is killed at the write or it      *)
(* runs on.                                                                *)
(***************************************************************************)
\* the buffers in the order the loop of line 68 writes them
BufferOrder == <<"vx", "vy", "vx0", "vy0", "fx", "fy", "rho", "rho0">>

\* a buffer malloc has returned and nothing has written
Fresh(size) == [c \in 0..(size - 1) |-> Indeterminate]

\* buffer number k after init_simulation(m) when malloc fails for the buffers F:
\* NULL is the empty array; a killed process has run the loop up to the first
\* NULL buffer of its first iteration
Allocated(m, k, F, outcome) ==
  LET size  == IF k <= 4 THEN PadSize(m) ELSE CompactSize(m)
      first == IF F = {} THEN 9
               ELSE CHOOSE i \in 1..8 : /\ BufferOrder[i] \in F
                                        /\ \A j \in 1..(i - 1) : BufferOrder[j] \notin F
  IN  IF BufferOrder[k] \in F THEN <<>>
      ELSE IF outcome = "running"
      THEN [c \in 0..(size - 1) |-> IF c < m * m THEN FZero ELSE Indeterminate]
      ELSE [c \in 0..(size - 1) |-> IF c = 0 /\ k < first THEN FZero ELSE Indeterminate]

InitAlloc ==
  /\ n = DIM
  /\ prec \in Precisions
  /\ pc = "start"
  /\ failed = {}
  /\ vx = <<>> /\ vy = <<>> /\ vx0 = <<>> /\ vy0 = <<>>
  /\ fx = <<>> /\ fy = <<>> /\ rho = <<>> /\ rho0 = <<>>
  /\ InitParams
  /\ InitGhost

\* void init_simulation(int n), with malloc returning NULL for the buffers F
init_simulation(m, F, outcome) ==
  /\ pc = "start"
  /\ F = {} => outcome = "running"
  /\ pc' = outcome
  /\ failed' = F
  /\ event' = <<"init_simulation", m>>
  /\ vx'  = Allocated(m, 1, F, outcome) /\ vy'   = Allocated(m, 2, F, outcome)
  /\ vx0' = Allocated(m, 3, F, outcome) /\ vy0'  = Allocated(m, 4, F, outcome)
  /\ fx'  = Allocated(m, 5, F, outcome) /\ fy'   = Allocated(m, 6, F, outcome)
  /\ rho' = Allocated(m, 7, F, outcome) /\ rho0' = Allocated(m, 8, F, outcome)
  /\ UNCHANGED <<n, prec, params, redisplays, calls, target, traced, touched,
                 before, nticks, ninputs>>

NextAlloc ==
  \E F \in SUBSET {BufferOrder[k] : k \in 1..8}, outcome \in {"running", "crashed"} :
    init_simulation(DIM, F, outcome)

SpecAlloc == InitAlloc /\ [][NextAlloc]_vars

(***************************************************************************)
(* set_forces alone, applied to fields drawn from the values below.        *)
(***************************************************************************)
MaxDecays == 3

\* the smallest positive number of the format with p significand bits
Tiny(P) == FMake(0, <<1>>, MinExp(P))

Densities(P) == {FZero, FInt(10), RN(P, Dbl(1, 3)), Tiny(P)}
ForceValues(P) == {FZero, RN(P, Dbl(2, 10)), RN(P, Dbl(-1, 10)), Tiny(P), FNeg(Tiny(P))}

InitForces ==
  /\ n = DIM
  /\ prec \in Precisions
  /\ pc = "running"
  /\ failed = {}
  /\ vx = ZeroPadded(DIM) /\ vy = ZeroPadded(DIM)
  /\ vx0 = ZeroPadded(DIM) /\ vy0 = ZeroPadded(DIM)
  /\ rho0 = ZeroCompact(DIM)
  /\ \E d \in Densities(prec), f \in ForceValues(prec), g \in ForceValues(prec) :
       /\ rho = [c \in 0..(DIM * DIM - 1) |-> d]
       /\ fx = [c \in 0..(DIM * DIM - 1) |-> f]
       /\ fy = [c \in 0..(DIM * DIM - 1) |-> g]
  /\ InitParams
  /\ InitGhost

\* one call of set_forces()
ForcesStep ==
  /\ nticks < MaxDecays
  /\ nticks' = nticks + 1
  /\ event' = <<"set_forces">>
  /\ before' = Found
  /\ \E sf \in {set_forces(prec, rho, fx, fy, vx0, vy0)} :
       /\ rho0' = sf.rho0 /\ fx' = sf.fx /\ fy' = sf.fy
       /\ vx0' = sf.vx0 /\ vy0' = sf.vy0
  /\ UNCHANGED <<vx, vy, rho, params, build, pc, redisplays, calls, target, traced,
                 touched, ninputs>>

NextForces == ForcesStep

SpecForces == InitForces /\ [][NextForces]_vars

(***************************************************************************)
(* diffuse_matter alone: the advection of a density through a uniform      *)
(* velocity, on grids of several sizes.                                    *)
(***************************************************************************)
MaxAdvects == 1

\* 1 - 2^-24 and 1/2 - 2^-30
BelowOne  == FAddX(FInt(1), FMake(1, <<1>>, -24))
BelowHalf == FAddX(Dbl(1, 2), FMake(1, <<1>>, -30))

\* the velocities (u, v) of the model
Velocities ==
  {<<FZero, FZero>>, <<Dbl(1, 2), FZero>>, <<FInt(25), FInt(-25)>>, <<BelowOne, FZero>>,
   <<FZero, BelowHalf>>, <<Dbl(-3, 10), Dbl(1, 10)>>, <<Dbl(1, 4), Dbl(-3, 4)>>}

\* the grid sizes and velocities diffuse_matter is run on
AdvectInputs ==
  {[n |-> m, v |-> w] : m \in {2, 3, 4}, w \in Velocities}
    \cup {[n |-> 6, v |-> <<FZero, FZero>>]}

\* a density that differs from cell to cell
SourceField(P, m) == [c \in 0..(m * m - 1) |-> RN(P, Dbl(7 * c + 3, 10))]

InitAdvect ==
  /\ prec \in Precisions
  /\ pc = "running"
  /\ failed = {}
  /\ \E in \in AdvectInputs :
       /\ n = in.n
       /\ vx = [c \in 0..(PadSize(in.n) - 1) |-> RN(prec, in.v[1])]
       /\ vy = [c \in 0..(PadSize(in.n) - 1) |-> RN(prec, in.v[2])]
  /\ vx0 = ZeroPadded(n) /\ vy0 = ZeroPadded(n)
  /\ fx = ZeroCompact(n) /\ fy = ZeroCompact(n)
  /\ rho = ZeroCompact(n)
  /\ rho0 = SourceField(prec, n)
  /\ dt \in {Dbl(4, 100), FInt(1)}
  /\ visc = RN(24, Dbl(1, 1000))
  /\ frozen = 0
  /\ winWidth = 900 /\ winHeight = 900
  /\ lmx = 0 /\ lmy = 0
  /\ InitGhost

\* one call of diffuse_matter(n, vx, vy, rho, rho0, dt)
AdvectStep ==
  /\ nticks < MaxAdvects
  /\ nticks' = nticks + 1
  /\ event' = <<"diffuse_matter">>
  /\ before' = Found
  /\ \E dm \in {diffuse_matter(prec, n, vx, vy, rho, rho0, RN(prec, dt))} :
       /\ rho' = dm.rho
       /\ traced' = dm.bt
       /\ touched' = [NoTouch EXCEPT !.cell = CompactIdx(n) \cup LookupIdx(n, dm.bt)]
  /\ UNCHANGED <<vx, vy, vx0, vy0, fx, fy, rho0, params, build, pc, redisplays, calls,
                 target, ninputs>>

NextAdvect == AdvectStep

SpecAdvect == InitAdvect /\ [][NextAdvect]_vars

(***************************************************************************)
(* The loop of solve over the frequency bins alone, on coefficients drawn  *)
(* from the fields below: vx0 and vy0 hold the transformed velocity.       *)
(***************************************************************************)
MaxProjections == 1

\* coefficients of either sign that differ from bin to bin
CoeffField(P, m, k) ==
  [c \in 0..(PadSize(m) - 1) |-> RN(P, Dbl(((5 * k * c + 3 * k) % 17) - 8, 7))]

InitProject ==
  /\ n \in {2, 4}
  /\ prec \in Precisions
  /\ pc = "running"
  /\ failed = {}
  /\ vx = ZeroPadded(n) /\ vy = ZeroPadded(n)
  /\ \E k \in {1, 2} : vx0 = CoeffField(prec, n, k) /\ vy0 = CoeffField(prec, n, k + 2)
  /\ fx = ZeroCompact(n) /\ fy = ZeroCompact(n)
  /\ rho = ZeroCompact(n) /\ rho0 = ZeroCompact(n)
  /\ dt \in {Dbl(4, 100), FZero, Dbl(-4, 100)}
  /\ visc \in {RN(24, Dbl(1, 1000)), FZero, RN(24, Dbl(5, 1000))}
  /\ frozen = 0
  /\ winWidth = 900 /\ winHeight = 900
  /\ lmx = 0 /\ lmy = 0
  /\ InitGhost

\* lines 159-176 of solve
ProjectStep ==
  /\ nticks < MaxProjections
  /\ nticks' = nticks + 1
  /\ event' = <<"project">>
  /\ before' = Found
  /\ \E pj \in {Project(prec, n, vx0, vy0, visc, RN(prec, dt))} :
       /\ vx0' = pj.vx0 /\ vy0' = pj.vy0
  /\ touched' = [NoTouch EXCEPT !.scratch = BinIdx(n)]
  /\ UNCHANGED <<vx, vy, fx, fy, rho, rho0, params, build, pc, redisplays, calls,
                 target, traced, ninputs>>

NextProject == ProjectStep

SpecProject == InitProject /\ [][NextProject]_vars


(***************************************************************************)
(* The properties.  Each is a predicate on the state a callback leaves,    *)
(* read against the state it found (before).                               *)
(***************************************************************************)
\* |v| <= |w|
FLeqAbs(v, w) == FCmp(FAbs(v), FAbs(w)) <= 0

\* 2^k
Pow2(k) == FMake(0, <<1>>, k)

\* v is a whole number
IsInteger(v) == v.e >= 0

\* the largest integer not above v
FFloor(v) == IF v.s = 0 \/ IsInteger(v) THEN FTrunc(v) ELSE FTrunc(v) - 1

IsPowerOfTwo(m) == \E k \in 0..10 : m = 2^k

C2_SetForcesDecay ==
  event = <<"set_forces">> =>
    /\ rho = before.rho /\ vx = before.vx /\ vy = before.vy
    /\ \A c \in CompactIdx(DIM) :
         /\ rho0[c] = RN(prec, FMul(53, Dbl(995, 1000), before.rho[c]))
         /\ fx[c] = RN(prec, FMul(53, before.fx[c], Dbl(85, 100)))
         /\ fy[c] = RN(prec, FMul(53, before.fy[c], Dbl(85, 100)))
         /\ vx0[c] = fx[c] /\ vy0[c] = fy[c]
         /\ before.rho[c] = FInt(10) => rho0[c] = RN(prec, Dbl(995, 100))
         /\ before.fx[c] = RN(prec, Dbl(2, 10)) => fx[c] = RN(prec, Dbl(17, 100))
         /\ before.fy[c] = RN(prec, Dbl(2, 10)) => fy[c] = RN(prec, Dbl(17, 100))
         /\ before.rho[c] # FZero => rho0[c] # FZero /\ FLeqAbs(rho0[c], before.rho[c])
         /\ before.fx[c] # FZero => fx[c] # FZero /\ FLeqAbs(fx[c], before.fx[c])
         /\ before.fy[c] # FZero => fy[c] # FZero /\ FLeqAbs(fy[c], before.fy[c])

\* set_forces has run on a density of 10 and a force of (0.2, 0.2)
C2_Witness ==
  /\ event = <<"set_forces">>
  /\ nticks = 1
  /\ before.rho[0] = FInt(10)
  /\ before.fx[0] = RN(prec, Dbl(2, 10))
  /\ before.fy[0] = RN(prec, Dbl(2, 10))
  /\ rho0[0] = RN(prec, Dbl(995, 100))
  /\ fx[0] = RN(prec, Dbl(17, 100))
  /\ fy[0] = RN(prec, Dbl(17, 100))

\* C3: a drag to any pointer position, inside the window or not, addresses a cell
\* (X, Y) of the grid, the edge cell when the position is outside; it adds the impulse
\* of the pointer movement to the force of that cell, sets the density of that cell
\* to 10, and changes no other cell of any buffer.
C3_DragOneCell ==
  (Len(event) = 3 /\ event[1] = "drag") =>
    /\ target[1] \in 0..(DIM - 1) /\ target[2] \in 0..(DIM - 1)
    /\ event[2] < 0 => target[1] = 0
    /\ event[2] > winWidth => target[1] = DIM - 1
    /\ event[3] > winHeight => target[2] = 0
    /\ event[3] < 0 => target[2] = DIM - 1
    /\ \E c \in {target[2] * DIM + target[1]} :
       \E f \in {Impulse(event[2] - before.lmx, (winHeight - event[3]) - before.lmy)} :
         /\ touched.cell = {c}
         /\ fx[c] = RN(prec, FAdd(53, before.fx[c], f[1]))
         /\ fy[c] = RN(prec, FAdd(53, before.fy[c], f[2]))
         /\ rho[c] = FInt(10)
         /\ \A k \in CompactIdx(DIM) \ {c} :
              fx[k] = before.fx[k] /\ fy[k] = before.fy[k] /\ rho[k] = before.rho[k]
    /\ <<vx, vy, vx0, vy0, rho0>>
         = <<before.vx, before.vy, before.vx0, before.vy0, before.rho0>>

\* a drag to a position left of and above the window has followed a drag inside it:
\* the edge cell is addressed, its force has grown and its density is 10
C3_Witness ==
  /\ event = <<"drag", -300, -100>>
  /\ ninputs = 2
  /\ target = <<0, DIM - 1>>
  /\ rho[DIM * (DIM - 1)] = FInt(10)
  /\ fx[DIM * (DIM - 1)] # before.fx[DIM * (DIM - 1)]
  /\ \E c \in CompactIdx(DIM) \ {DIM * (DIM - 1)} : before.rho[c] = FInt(10)

\* the decomposition of a traced position the periodic lookup calls for: the base is
\* the floor of the position
FloorTrace(P, m, bt) ==
  [x |-> DecomposeAt(P, m, bt.x.pos, FFloor(bt.x.pos)),
   y |-> DecomposeAt(P, m, bt.y.pos, FFloor(bt.y.pos))]

\* C4: for every cell of an advection, the base indices and their +1 neighbours lie
\* in 0..n-1, and the value written is the one interpolated at the traced position
\* wrapped into the grid: base the floor of the position, taken modulo n.
C4_Periodicity ==
  event = <<"diffuse_matter">> =>
    \A c \in CompactIdx(n) :
      /\ {traced[c].x.i0, traced[c].x.i1, traced[c].y.i0, traced[c].y.i1} \subseteq 0..(n - 1)
      /\ rho[c] = Interpolate(prec, n, FloorTrace(prec, n, traced[c]), rho0)

\* C5: every traced position is decomposed into a base cell and fractional offsets s
\* and t with 0 <= s < 1 and 0 <= t < 1; a coordinate that is a whole number has the
\* offset 0, and a position whose coordinates both are is a lookup of the base cell.
C5_FractionsInUnitInterval ==
  event = <<"diffuse_matter">> =>
    \A c \in CompactIdx(n) :
      /\ \A d \in {traced[c].x, traced[c].y} :
           /\ FSign(d.frac) >= 0
           /\ FCmp(d.frac, FOne) < 0
           /\ IsInteger(d.pos) => d.frac = FZero /\ d.base = FTrunc(d.pos)
      /\ (IsInteger(traced[c].x.pos) /\ IsInteger(traced[c].y.pos))
           => rho[c] = rho0[traced[c].x.i0 + n * traced[c].y.i0]

\* the velocity is zero in every cell
ZeroVelocity == \A c \in CompactIdx(n) : vx[c] = FZero /\ vy[c] = FZero

\* the largest magnitude of the field q
MaxAbs(q) == CHOOSE v \in {FAbs(q[c]) : c \in DOMAIN q} : \A c \in DOMAIN q : FLeqAbs(q[c], v)

\* C6 as the specification states it: an advection through a velocity that is zero
\* in every cell leaves every density equal to the scratch density of its cell, every
\* traced position a cell centre with both offsets 0.
C6_ZeroVelocityExact ==
  (event = <<"diffuse_matter">> /\ ZeroVelocity) =>
    \A c \in CompactIdx(n) :
      /\ rho[c] = rho0[c]
      /\ traced[c].x.frac = FZero /\ traced[c].y.frac = FZero

\* C6: an advection through a velocity that is zero in every cell leaves every
\* density equal to the scratch density of its cell, with both offsets 0, when the
\* grid size is a power of two; for another grid size the cell centres are not
\* numbers of the format, and every density is within n*n * 2^-22 times the largest
\* scratch density of the scratch density of its cell.
C6_ZeroVelocityNear ==
  (event = <<"diffuse_matter">> /\ ZeroVelocity) =>
    \A c \in CompactIdx(n) :
      IF IsPowerOfTwo(n)
      THEN /\ rho[c] = rho0[c]
           /\ traced[c].x.frac = FZero /\ traced[c].y.frac = FZero
      ELSE FLeqAbs(FAddX(rho[c], FNeg(rho0[c])),
                   FMulX(FInt(n * n), FMulX(Pow2(-22), MaxAbs(rho0))))

\* a field that differs from cell to cell has gone through a zero velocity on a grid
\* of 4 x 4 cells over a time step of 1, and is reproduced
C6_Witness ==
  /\ event = <<"diffuse_matter">>
  /\ ZeroVelocity
  /\ n = 4
  /\ dt = FInt(1)
  /\ rho = rho0
  /\ rho[0] # rho[1]

\* k.x*U + k.y*V for the pair (U, V) at c of the fields u and v on a grid of m cells
\* a side, exactly
Divergence(P, m, u, v, c) ==
  FAddX(FMulX(WaveX(P, (c - (c % 2)) % (m + 2)), u[c]), FMulX(WaveY(m, c \div (m + 2)), v[c]))

\* the rounding the projection of the pair at c can leave in k.x*U' + k.y*V':
\* 2^(4-P) * (|k.x| + |k.y|) * f * (|U| + |V|)
Residue(P, m, u, v, c, f) ==
  FMulX(FMulX(Pow2(4 - P), FAddX(FAbs(WaveX(P, (c - (c % 2)) % (m + 2))),
                                 FAbs(WaveY(m, c \div (m + 2))))),
        FMulX(f, FAddX(FAbs(u[c]), FAbs(v[c]))))

\* the bins of the padded layout but the one of frequency zero, both parts of each
OtherBins(m) == BinIdx(m) \ {0, 1}

C8_DCPreserved ==
  event = <<"project">> =>
    /\ \A c \in {0, 1} : vx0[c] = before.vx0[c] /\ vy0[c] = before.vy0[c]
    /\ \A c \in BinIdx(n) : vx0[c] # NotFinite /\ vy0[c] # NotFinite

\* the loop has run with a negative time step on coefficients whose bin of frequency
\* zero is not zero, and changed another bin
C8_Witness ==
  /\ event = <<"project">>
  /\ dt = Dbl(-4, 100)
  /\ visc # FZero
  /\ before.vx0[0] # FZero
  /\ vx0[0] = before.vx0[0]
  /\ vx0[2] # before.vx0[2]

\* C9: when a malloc of init_simulation fails, the initialization ends with an
\* allocation error: no buffer is written through and the program does not go on
\* with the buffers it has.
C9_AllocationFailureReported ==
  failed # {} => pc = "allocation error"

\* C10: every index set_forces, solve and diffuse_matter apply is inside the buffer
\* it addresses: the compact indices i+n*j are below n*n, in the velocity and in the
\* cell buffers, and the indices into the scratch velocity, padded ones up to
\* i+1+(n+2)*j with i = n, are below n*2*(n/2+1); so for every even grid size.
C10_IndicesInBounds ==
  /\ touched.vel \subseteq 0..(CompactSize(n) - 1)
  /\ touched.cell \subseteq 0..(CompactSize(n) - 1)
  /\ touched.scratch \subseteq 0..(PadSize(n) - 1)
  /\ \A m \in {2, 4, 6, 8} :
       /\ CompactIdx(m) \subseteq 0..(CompactSize(m) - 1)
       /\ PaddedIdx(m) \cup BinIdx(m) \subseteq 0..(PadSize(m) - 1)

\* a tick has run and addressed the last element of the scratch velocity
C10_Witness ==
  /\ event = <<"do_one_simulation_step">>
  /\ before.frozen = 0
  /\ PadSize(n) - 1 \in touched.scratch
  /\ CompactSize(n) - 1 \in touched.cell

====
